---- MODULE Spec2Model ----
(***************************************************************************)
(* Model of the kosmos_meteor impact-risk pipeline: the entry/breakup      *)
(* model, the descent/crater model, the damage channels, the population    *)
(* estimate, the case-table builder and the Orchestrator loop.             *)
(*                                                                         *)
(* Number representation.  Python floats are modelled in two fixed-point   *)
(* forms, both with three decimal digits:                                  *)
(*   - "milli": a real x is the integer round(1000 * x); used where the    *)
(*     code adds and subtracts;                                            *)
(*   - "lg": a positive real x is the integer round(1000 * log10(x))       *)
(*     (millidecades); used where the code multiplies, divides and raises  *)
(*     to powers, so that the 1e-12 .. 1e+21 range of energies fits.       *)
(* A float that may be zero, negative or NaN is a record [k, lg] built by   *)
(* Pos, Zero, Neg, NaN.  Lg, Exp10, ISqrt, Sin and Radians convert and      *)
(* compute in integers; nothing is taken as the identity.                  *)
(***************************************************************************)
EXTENDS Integers, Sequences, FiniteSets, TLC

(***************************************************************************)
(* Float arithmetic                                                        *)
(***************************************************************************)

RECURSIVE Pow10(_)
Pow10(n) == IF n <= 0 THEN 1 ELSE 10 * Pow10(n - 1)

\* 10^(a/10), 10^(b/100), 10^(c/1000) for a, b, c in 0..9, times 10000.
Tab1 == <<10000, 12589, 15849, 19953, 25119, 31623, 39811, 50119, 63096, 79433>>
Tab2 == <<10000, 10233, 10471, 10715, 10965, 11220, 11482, 11749, 12023, 12303>>
Tab3 == <<10000, 10023, 10046, 10069, 10093, 10116, 10139, 10162, 10186, 10209>>

\* The largest index i in 0..9 with tab[i+1] <= m.
TabIndex(tab, m) ==
    CHOOSE i \in 0..9 : tab[i + 1] <= m /\ (i = 9 \/ tab[i + 2] > m)

\* Rounded division of non-negative integers.
RDiv(a, b) == (a + b \div 2) \div b

\* 10^(r/1000) for r in 0..999, times 10000 (a value in 10000..99999).
Mantissa(r) ==
    LET a == r \div 100
        b == (r \div 10) % 10
        c == r % 10
    IN RDiv(RDiv(Tab1[a + 1] * Tab2[b + 1], 10000) * Tab3[c + 1], 10000)

\* 10^(l/1000) * 10^s as an integer, for an lg value l: the conversion from
\* the lg form to a linear fixed-point form with s decimal digits.
Exp10(l, s) ==
    LET q == l \div 1000
        e == q + s - 4
    IN IF e >= 0 THEN Mantissa(l % 1000) * Pow10(e)
       ELSE IF e < -9 THEN 0
       ELSE RDiv(Mantissa(l % 1000), Pow10(-e))

RECURSIVE Digits(_)
Digits(n) == IF n < 10 THEN 1 ELSE 1 + Digits(n \div 10)

\* 1000 * log10(n) for an integer n >= 1, to the nearest millidecade
\* (1.00115 = 10^0.0005 is the midpoint of a step).
LgInt(n) ==
    LET d  == Digits(n)
        m  == IF d <= 5 THEN n * Pow10(5 - d) ELSE n \div Pow10(d - 5)
        a  == TabIndex(Tab1, m)
        m1 == (m * 10000) \div Tab1[a + 1]
        b  == TabIndex(Tab2, m1)
        m2 == (m1 * 10000) \div Tab2[b + 1]
        c  == TabIndex(Tab3, m2)
        m3 == (m2 * 10000) \div Tab3[c + 1]
    IN 1000 * (d - 1) + 100 * a + 10 * b + c + (IF m3 >= 10012 THEN 1 ELSE 0)

\* lg of the real n / 10^s.
Lg(n, s) == LgInt(n) - 1000 * s

RECURSIVE SqrtIter(_, _, _)
SqrtIter(n, lo, hi) ==
    IF lo >= hi THEN lo
    ELSE LET mid == (lo + hi + 1) \div 2
         IN IF mid * mid <= n THEN SqrtIter(n, mid, hi)
            ELSE SqrtIter(n, lo, mid - 1)

\* floor(sqrt(n)) for 0 <= n < 2^31.
ISqrt(n) == SqrtIter(n, 0, 46340)

\* a * b / 10^6 for micro-scaled a, b >= 0, split so that no product overflows.
MulMicro(a, b) ==
    LET a1 == a \div 1000
        a0 == a % 1000
        b1 == b \div 1000
        b0 == b % 1000
    IN a1 * b1 + (a1 * b0 + a0 * b1) \div 1000 + (a0 * b0) \div 1000000

\* numpy.radians on a micro-scaled argument: u * pi / 180.
Radians(u) == ((u \div 1000) * 17453) \div 1000 + ((u % 1000) * 17453) \div 1000000

\* math.sin of x in micro-radians (0 <= x <= 2 rad), in micro-units:
\* x - x^3/6 + x^5/120 - x^7/5040 + x^9/362880 in Horner form.
Sin(x) ==
    LET y  == MulMicro(x, x)
        t4 == 1000000 - y \div 72
        t3 == 1000000 - MulMicro(y, t4) \div 42
        t2 == 1000000 - MulMicro(y, t3) \div 20
        t1 == 1000000 - MulMicro(y, t2) \div 6
    IN MulMicro(x, t1)

\* math.log of a positive real given by its lg value l, in milli-units:
\* ln(x) = log10(x) * 2.302585.
LnOfLg(l) == (l * 2302 + (l * 585) \div 1000) \div 1000

\* lg of math.exp(x) for x in micro-units: x * log10(e), log10(e) = 0.434.
LgOfExp(x) ==
    IF x >= 0 THEN RDiv(RDiv(x, 1000) * 434, 1000)
    ELSE -RDiv(RDiv(-x, 1000) * 434, 1000)

\* lg(1 + x) for x given by its lg value l.
LgAdd1(l) ==
    IF l >= 5000 THEN l
    ELSE IF l <= -5000 THEN 0
    ELSE Lg(10000 + Exp10(l, 4), 4)

\* l * p / 1000 to the nearest integer: the lg of x**(p/1000).
ScaleLg(l, p) == (l * p + 500) \div 1000

\* A float that may be zero, negative or NaN.
Pos(l) == [k |-> "pos", lg |-> l]
Neg(l) == [k |-> "neg", lg |-> l]
Zero == [k |-> "zero", lg |-> 0]
NaN == [k |-> "nan", lg |-> 0]

\* The float n / 1000 for an integer n.
NumOfMilli(n) ==
    IF n = 0 THEN Zero ELSE IF n > 0 THEN Pos(Lg(n, 3)) ELSE Neg(Lg(-n, 3))

\* a < b on floats; every comparison with NaN is False.
NumLt(a, b) ==
    /\ a.k # "nan"
    /\ b.k # "nan"
    /\ CASE a.k = "neg"  -> b.k # "neg" \/ a.lg > b.lg
          [] a.k = "zero" -> b.k = "pos"
          [] a.k = "pos"  -> b.k = "pos" /\ a.lg < b.lg

\* a <= b on floats.
NumLe(a, b) == a.k # "nan" /\ b.k # "nan" /\ ~NumLt(b, a)

\* a * b on floats.
NumMul(a, b) ==
    IF a.k = "nan" \/ b.k = "nan" THEN NaN
    ELSE IF a.k = "zero" \/ b.k = "zero" THEN Zero
    ELSE IF a.k = b.k THEN Pos(a.lg + b.lg)
    ELSE Neg(a.lg + b.lg)

\* round(x, 2) of a positive float given by its lg value: the nearest
\* multiple of 0.01 (0.0 below 0.005).
Round2(l) ==
    IF l >= 6000 THEN Pos(l)
    ELSE IF Exp10(l, 2) = 0 THEN Zero
    ELSE Pos(Lg(Exp10(l, 2), 2))

\* dict.get(key, default).
Get(d, key, default) == IF key \in DOMAIN d THEN d[key] ELSE default

(***************************************************************************)
(* Entry/breakup model: simulation/entry_model.py                          *)
(* A Case is a record [diameter (m), density (kg/m3), speed (km/s),        *)
(* angle (degrees), impact_energy_mt (lg)] with integer inputs.            *)
(***************************************************************************)

\* speed = case['speed']*1000, as lg of m/s.
LgSpeed(case) == LgInt(case.speed * 1000)

\* math.sin(angle) with angle = np.radians(case['angle']), as lg.
LgSinAngle(case) == Lg(Sin(Radians(case.angle * 1000000)), 6)

\* Ym_strength = 10**(2.107+0.0624*math.sqrt(density)), as lg.
LgYm(case) == 2107 + (624 * ISqrt(case.density * 10000)) \div 1000

\* If_value = 4.07*2*8*Ym_strength/(density*diameter*speed**2*math.sin(angle)), as lg.
LgIf(case) ==
    Lg(407 * 2 * 8, 2) + LgYm(case)
    - (LgInt(case.density) + LgInt(case.diameter) + 2 * LgSpeed(case) + LgSinAngle(case))

\* The branch condition If_value < 1.
BreaksUp(case) == LgIf(case) < 0

\* burst_altitude_km of the breakup branch, in milli-km (metres):
\* -8*(math.log(Ym_strength/speed**2) + 1.308 - 0.314*If_value
\*     - 1.303*math.sqrt(1-If_value)).
BreakupAltitude(case) ==
    LET ifv == Exp10(LgIf(case), 6)
    IN -8 * (LnOfLg(LgYm(case) - 2 * LgSpeed(case)) + 1308
             - (314 * ifv) \div 1000000
             - (1303 * ISqrt(1000000 - ifv)) \div 1000)

\* p(z) = math.exp(-z/8), z in milli-km, as lg.
LgP(z) == LgOfExp(-(z * 125))

\* vi(z) = speed*math.exp(-3*p(z)*2*8/(4*density*diameter*math.sin(angle))), as lg.
LgVi(case, z) ==
    LET lgx == LgInt(3 * 2 * 8) + LgP(z)
               - (LgInt(4) + LgInt(case.density) + LgInt(case.diameter) + LgSinAngle(case))
    IN LgSpeed(case) + LgOfExp(-Exp10(lgx, 6))

\* FragmentCloudModel.run_entry.  The no-breakup branch assigns
\* speed_at_breakup, and the return statement then reads the unassigned
\* local speed_at_breakup_ms: the call raises UnboundLocalError.
run_entry(case) ==
    IF BreaksUp(case)
    THEN [burst_altitude_km   |-> NumOfMilli(BreakupAltitude(case)),
          speed_at_breakup_ms |-> Pos(LgVi(case, BreakupAltitude(case)))]
    ELSE [exception |-> "UnboundLocalError"]

\* Mutant: the exception taken for a value and the caller carrying on.
Raised_Swallowed(r) == FALSE

\* A call that raised returns no value: its result is the exception.
Raised(r) == "exception" \in DOMAIN r

(***************************************************************************)
(* Descent/crater model: simulation/crater_model.py                        *)
(***************************************************************************)

pancake_coefficient == 7
expansion_rate == 100
rho_t == 2000
t_span_end == 500

LgPi == Lg(314159, 5)

\* radius0 = diameter / 2, in milli-metres.
Radius0(case) == case.diameter * 500

\* area_expanded = pancake_coefficient * area0, area0 = np.pi * radius0**2, as lg.
LgAreaExpanded(case) == LgInt(pancake_coefficient) + (LgPi + 2 * Lg(Radius0(case), 3))

\* radius_expanded = np.sqrt(area_expanded / np.pi), as lg.
LgRadiusExpanded(case) == (LgAreaExpanded(case) - LgPi) \div 2

\* diameter_expanded = 2 * radius_expanded, as lg.
LgDiameterExpanded(case) == LgInt(2) + LgRadiusExpanded(case)

\* expansion_time = (radius_expanded - radius0) / expansion_rate, in milli-seconds.
ExpansionTime(case) ==
    (Exp10(LgRadiusExpanded(case), 3) - Radius0(case)) \div expansion_rate

\* mass0 = density * (4/3) * np.pi * radius0**3, as lg of kg.
LgMass0(case) ==
    LgInt(case.density) + Lg(4, 0) - Lg(3, 0) + LgPi + 3 * Lg(Radius0(case), 3)

\* The float n / 1000 as the integer n (inverse of NumOfMilli).
NumToMilli(a) ==
    IF a.k = "pos" THEN Exp10(a.lg, 3)
    ELSE IF a.k = "neg" THEN -Exp10(a.lg, 3)
    ELSE 0

\* theta_rad = np.radians(angle_rad) with angle_rad = np.radians(case['angle']):
\* the angle of the descent equation, converted twice, in micro-radians.
ThetaDescent(case) == Radians(Radians(case.angle * 1000000))

\* y0 = [speed_at_breakup_ms, mass0, h0], h0 = breakup_altitude_km * 1000 (m):
\* the entry result is read with .get('speed_at_breakup_ms', 0) and
\* .get('breakup_altitude_km', 0).
InitialState(case, entry) ==
    [v |-> Get(entry, "speed_at_breakup_ms", Zero),
     m |-> Pos(LgMass0(case)),
     h |-> NumToMilli(Get(entry, "breakup_altitude_km", Zero))]

\* Times (s) at which the integrator may give up before the end of t_span.
FailTimes == {1}
\* Falls of lg(v) over the integrated descent (drag only decelerates).
SpeedDrops == {2000}
\* Altitude (m) lost over the integrated descent.
Falls == {30}
\* Mass at the last point of the trajectory, from the initial mass m0:
\* dm/dt < 0 is not stopped at zero, so the integrated mass may stay
\* positive, reach zero, go negative or become NaN.
MassEnds(m0) == {Pos(m0.lg - 10), Zero, Neg(m0.lg - 1000), NaN}

\* -dhdt of deriv at y0, the first evaluation the integrator makes:
\* dhdt = -v * np.sin(theta_rad), with theta_rad in micro-radians.
DescentRate(y0, theta_rad) ==
    LET sine == Sin(theta_rad)
    IN NumMul(y0.v, IF sine = 0 THEN Zero
                    ELSE IF sine > 0 THEN Pos(Lg(sine, 6))
                    ELSE Neg(Lg(-sine, 6)))

\* solve_ivp(deriv, t_span, y0, method='RK45', dense_output=True,
\*           events=lambda t, y: y[2] - 0)
\* The integrator is library code: its result is any trajectory from y0 that
\* the call allows, given here by its first and last points and the descent
\* rate deriv returns at the first one.  The event
\* function carries no terminal attribute, so a ground crossing does not stop
\* the integration: a run that finishes ends at t_span[1], a run that fails
\* ends earlier.  dh/dt = -v*sin(theta_rad) < 0 and dv/dt < 0 along the way.
SolveIvp(y0, theta_rad) ==
    { [t |-> <<0, tt>>,
       v |-> <<y0.v, IF y0.v.k = "pos" THEN Pos(y0.v.lg - drop) ELSE y0.v>>,
       m |-> <<y0.m, mend>>,
       h |-> <<y0.h, y0.h - fall>>,
       descent_rate |-> DescentRate(y0, theta_rad)]
      : tt \in FailTimes \cup {t_span_end}, drop \in SpeedDrops, fall \in Falls,
        mend \in MassEnds(y0.m) }

\* Mutant: the sine dividing the density ratio, rho_p / (rho_t*sin(theta)).
LgDtr_SineDivides(case, d, v) ==
    Lg(1161, 3) + ScaleLg(Lg(981, 2), -220)
    + ScaleLg(LgInt(case.density) - (LgInt(rho_t) + LgSinAngle(case)), 333)
    + ScaleLg(d, 780) + ScaleLg(v, 440)

\* Mutant: the velocity entering with the exponent -0.44.
LgDtr_InverseSpeed(case, d, v) ==
    Lg(1161, 3) + ScaleLg(Lg(981, 2), -220)
    + ScaleLg(LgInt(case.density) - LgInt(rho_t) + LgSinAngle(case), 333)
    + ScaleLg(d, 780) + ScaleLg(v, -440)

\* D_tr = k1 * (g**-0.22) * (rho_p / rho_t*math.sin(theta_rad))**0.333
\*        * d**0.78 * v**0.44, as lg, with k1 = 1.161, g = 9.81 and
\* theta_rad = angle_rad = np.radians(case['angle']); d and v are lg values.
LgDtr(case, d, v) ==
    Lg(1161, 3) + ScaleLg(Lg(981, 2), -220)
    + ScaleLg(LgInt(case.density) - LgInt(rho_t) + LgSinAngle(case), 333)
    + ScaleLg(d, 780) + ScaleLg(v, 440)

\* D_f = 1.25 * D_tr if D_tr < 3200 else 1.3 * D_tr**1.13 / 3200**0.13, as lg.
LgDf(dtr) ==
    IF dtr < LgInt(3200) THEN Lg(125, 2) + dtr
    ELSE Lg(13, 1) + ScaleLg(dtr, 1130) - ScaleLg(LgInt(3200), 130)

\* Mutant: the depth factor changing at 5000 m instead of 4000 m.
LgDepth_At5000(df) == IF df < LgInt(5000) THEN df + Lg(2, 1) ELSE df + Lg(1, 1)

\* depth = D_f * 0.2 if D_f < 4000 else D_f * 0.1, as lg.
LgDepth(df) == IF df < LgInt(4000) THEN df + Lg(2, 1) ELSE df + Lg(1, 1)

\* T_ejecta = 0.14 * D_f**0.74 / (1 + (D_f / 1000)**2), as lg.
LgEjecta(df) == Lg(14, 2) + ScaleLg(df, 740) - LgAdd1(2 * (df - 3000))

\* impact_energy_j = 0.5 * rho_p * (4/3) * math.pi * (d / 2)**3 * v**2, as lg.
LgImpactEnergyJ(case, d, v) ==
    Lg(5, 1) + LgInt(case.density) + Lg(4, 0) - Lg(3, 0) + LgPi
    + 3 * (d - LgInt(2)) + 2 * v

\* Mutant: the comparison the other way round.
Airburst_Inverted(case, descent_time) == descent_time * 1000 <= ExpansionTime(case)

\* The branch condition descent_time >= expansion_time (descent_time in s).
Airburst(case, descent_time) == descent_time * 1000 >= ExpansionTime(case)

\* Mutant: the partial-expansion diameter in both branches.
LgDiameterGround_Partial(case, descent_time) ==
    Lg(2 * (Radius0(case) + expansion_rate * descent_time * 1000), 3)

\* diameter_ground_m, as lg: diameter_expanded when descent_time >=
\* expansion_time, else 2 * radius_partial with
\* radius_partial = radius0 + expansion_rate * descent_time.
LgDiameterGround(case, descent_time) ==
    IF Airburst(case, descent_time) THEN LgDiameterExpanded(case)
    ELSE Lg(2 * (Radius0(case) + expansion_rate * descent_time * 1000), 3)

\* Mutant: the else branch without its two last assignments, so that the
\* trajectory's estimates are returned in both branches.
run_impact_crater_model_NoReset(case, entry_result, sol, imax) ==
    LET speed_at_ground_ms == sol.v[Len(sol.v)]
        descent_time == sol.t[Len(sol.t)]
        d == LgDiameterGround(case, descent_time)
        dtr == LgDtr(case, d, speed_at_ground_ms.lg)
        energy == LgImpactEnergyJ(case, d, speed_at_ground_ms.lg)
    IN [speed_at_ground_ms |-> speed_at_ground_ms,
        diameter_ground_m |-> Pos(d),
        airburst_bool |-> Airburst(case, descent_time),
        burst_altitude_km |-> NumOfMilli(sol.h[imax]),
        speed_at_burst_ms |-> sol.v[imax],
        transient_crater_diameter_m |-> Round2(dtr),
        final_crater_diameter_m |-> Round2(LgDf(dtr)),
        crater_depth_m |-> Round2(LgDepth(LgDf(dtr))),
        ejecta_thickness_at_rim_m |-> Round2(LgEjecta(LgDf(dtr))),
        impact_energy_j |-> Pos(energy),
        impact_energy_kt |-> Pos(energy - Lg(4184, -9))]

\* CraterModel.run_impact_crater_model on the integrator's trajectory sol;
\* imax is max_deposition_index = np.argmax(energy_loss), an index of sol.
run_impact_crater_model(case, entry_result, sol, imax) ==
    LET speed_at_ground_ms == sol.v[Len(sol.v)]
        descent_time == sol.t[Len(sol.t)]
        airburst == Airburst(case, descent_time)
        d == LgDiameterGround(case, descent_time)
        dtr == LgDtr(case, d, speed_at_ground_ms.lg)
        energy == LgImpactEnergyJ(case, d, speed_at_ground_ms.lg)
    IN [speed_at_ground_ms |-> speed_at_ground_ms,
        diameter_ground_m |-> Pos(d),
        airburst_bool |-> airburst,
        burst_altitude_km |-> IF airburst THEN NumOfMilli(sol.h[imax]) ELSE Zero,
        speed_at_burst_ms |-> IF airburst THEN sol.v[imax] ELSE speed_at_ground_ms,
        transient_crater_diameter_m |-> Round2(dtr),
        final_crater_diameter_m |-> Round2(LgDf(dtr)),
        crater_depth_m |-> Round2(LgDepth(LgDf(dtr))),
        ejecta_thickness_at_rim_m |-> Round2(LgEjecta(LgDf(dtr))),
        impact_energy_j |-> Pos(energy),
        impact_energy_kt |-> Pos(energy - Lg(4184, -9))]

(***************************************************************************)
(* Damage channels: simulation/damage_models                               *)
(***************************************************************************)

\* x ** (1/3) of a float x.  A negative float to a fractional power is a
\* complex number in Python, and NaN stays NaN: neither is a real radius.
CubeRoot(x) ==
    IF x.k = "pos" THEN Pos(ScaleLg(x.lg, 333))
    ELSE IF x.k = "zero" THEN Zero
    ELSE NaN

\* Mutant: the scaling constants taken from the height of burst, smaller
\* for a burst above ground.
calculate_blast_HeightOfBurst(case, entry_result) ==
    LET yield_kt == NumMul(case.impact_energy_mt, Pos(3000))
        high == entry_result.burst_altitude_km.k = "pos"
    IN [blast_radius_1psi_km |->
            NumMul(Pos(Lg(IF high THEN 10 ELSE 15, 1)), CubeRoot(yield_kt)),
        blast_radius_4psi_km |->
            NumMul(Pos(Lg(IF high THEN 4 ELSE 6, 1)), CubeRoot(yield_kt))]

\* LocalDamageModel._calculate_blast: R = C * yield_kt ** (1/3),
\* yield_kt = case['impact_energy_mt'] * 1000, c_1psi = 1.5, c_4psi = 0.6.
calculate_blast(case, entry_result) ==
    LET yield_kt == NumMul(case.impact_energy_mt, Pos(3000))
    IN [blast_radius_1psi_km |-> NumMul(Pos(Lg(15, 1)), CubeRoot(yield_kt)),
        blast_radius_4psi_km |-> NumMul(Pos(Lg(6, 1)), CubeRoot(yield_kt))]

\* LocalDamageModel._calculate_thermal: 0.5 * (yield_mt * 1000)**(1/3).
calculate_thermal(case, entry_result) ==
    [thermal_radius_3rd_degree_burns_km |->
        NumMul(Pos(Lg(5, 1)), CubeRoot(NumMul(case.impact_energy_mt, Pos(3000))))]

\* {**a, **b}: the keys of b win.
Merge(a, b) == b @@ a

\* LocalDamageModel.calculate_damage.
local_calculate_damage(case, entry) ==
    Merge(calculate_blast(case, entry), calculate_thermal(case, entry))

\* Mutant: a run-up of 1 m instead of the stub's 0.
tsunami_calculate_damage_Runup(case, entry_result) == [tsunami_runup_m |-> Pos(0)]

\* TsunamiModel.calculate_damage.
tsunami_calculate_damage(case, entry_result) == [tsunami_runup_m |-> Zero]

\* Mutant: the fit without min(1.0, ...).
GlobalFraction_NoClamp(impact_energy_mt) ==
    LET energy_gt == NumMul(impact_energy_mt, Pos(-3000))
        log_e == energy_gt.lg
    IN IF NumLt(Pos(LgInt(40)), energy_gt)
       THEN IF log_e > 2000 THEN (250 * (log_e - 2000)) \div 1000 ELSE 0
       ELSE 0

\* Mutant: the fit without the guard log_e > 2.
GlobalFraction_NoLogGuard(impact_energy_mt) ==
    LET energy_gt == NumMul(impact_energy_mt, Pos(-3000))
        log_e == energy_gt.lg
    IN IF NumLt(Pos(LgInt(40)), energy_gt)
       THEN IF 1000 <= (250 * (log_e - 2000)) \div 1000 THEN 1000
            ELSE (250 * (log_e - 2000)) \div 1000
       ELSE 0

\* The fraction of GlobalEffectsModel.calculate_damage, in milli-units:
\* energy_gt = case['impact_energy_mt'] / 1000; fraction = 0.0;
\* if energy_gt > 40: log_e = np.log10(energy_gt);
\*     if log_e > 2: fraction = min(1.0, 0.25 * (log_e - 2)).
GlobalFraction(impact_energy_mt) ==
    LET energy_gt == NumMul(impact_energy_mt, Pos(-3000))
        log_e == energy_gt.lg
    IN IF NumLt(Pos(LgInt(40)), energy_gt)
       THEN IF log_e > 2000
            THEN IF 1000 <= (250 * (log_e - 2000)) \div 1000 THEN 1000
                 ELSE (250 * (log_e - 2000)) \div 1000
            ELSE 0
       ELSE 0

\* GlobalEffectsModel.calculate_damage.
global_calculate_damage(case, entry_result) ==
    [global_effects_fraction |-> NumOfMilli(GlobalFraction(case.impact_energy_mt))]

(***************************************************************************)
(* Population estimate: analysis/population.py                             *)
(***************************************************************************)

\* The default pop_density = 15.21.
DefaultPopDensity == Pos(Lg(1521, 2))

\* Mutant: the guard without np.isnan.
calculate_affected_population_NoNaN(damage_footprint, pop_density) ==
    IF NumLe(damage_footprint, Zero) THEN Zero
    ELSE NumMul(NumMul(Pos(LgPi), NumMul(damage_footprint, damage_footprint)),
                pop_density)

\* calculate_affected_population(damage_footprint, pop_density):
\* if damage_footprint <= 0 or np.isnan(damage_footprint): return 0.0
\* area_km2 = np.pi * damage_footprint**2; return area_km2 * pop_density.
calculate_affected_population(damage_footprint, pop_density) ==
    IF NumLe(damage_footprint, Zero) \/ damage_footprint.k = "nan" THEN Zero
    ELSE NumMul(NumMul(Pos(LgPi), NumMul(damage_footprint, damage_footprint)),
                pop_density)

\* Mutant: the local estimate taken as the maximum.
Max3_First(a, b, c) == a

\* max(a, b, c) of Python: the first argument that no later one exceeds.
Max3(a, b, c) ==
    LET m == IF NumLt(a, b) THEN b ELSE a
    IN IF NumLt(m, c) THEN c ELSE m

(***************************************************************************)
(* Case table: inputs/case_generator.py, inputs/asteroid_properties.py     *)
(***************************************************************************)

\* impact_energy_mt = 0.5 * mass_kg * velocity_mps**2 / 4.184e15 with
\* mass_kg = 4*np.pi*pow(diameter/2, 3)/3 (the second assignment of mass_kg,
\* which carries no density) and velocity_mps = speed * 1000, as lg.
LgImpactEnergyMt(diameter, speed) ==
    Lg(5, 1) + (Lg(4, 0) + LgPi + 3 * (LgInt(diameter) - LgInt(2)) - Lg(3, 0))
    + 2 * LgInt(speed * 1000) - Lg(4184, -12)

\* A row of the case table as the per-case loop reads it.
CaseRow(diameter, density, speed, angle) ==
    [diameter |-> diameter, density |-> density, speed |-> speed, angle |-> angle,
     impact_energy_mt |-> Pos(LgImpactEnergyMt(diameter, speed))]

\* AsteroidPropertyGenerator(*args): __init__(self, h_magnitude) takes one
\* argument; any other number of positional arguments raises TypeError.
AsteroidPropertyGenerator(args) ==
    IF Len(args) = 1 THEN [h_magnitude |-> args[1]]
    ELSE [exception |-> "TypeError"]

\* Diameter (m) from H and albedo (per mille):
\* diameter_km = (1329 / np.sqrt(albedo)) * (10**(-0.2 * h_magnitude)), as lg of m.
LgDiameterFromH(h_magnitude, albedo) ==
    LgInt(1329) - Lg(albedo, 3) \div 2 - 200 * h_magnitude + 3000

\* AsteroidPropertyGenerator.sample_properties(n_samples): one row per draw of
\* np.random.uniform; draws[i] = [albedo (per mille), density, strength (lg)].
\* The columns are h_magnitude, albedo, diameter_m, density_kg_m3, mass_kg,
\* strength_mpa.
sample_properties(gen, draws) ==
    [i \in 1..Len(draws) |->
        [h_magnitude |-> gen.h_magnitude,
         albedo |-> draws[i].albedo,
         diameter_m |-> Pos(LgDiameterFromH(gen.h_magnitude, draws[i].albedo)),
         density_kg_m3 |-> draws[i].density,
         mass_kg |-> Pos(LgInt(draws[i].density) + Lg(4, 0) - Lg(3, 0) + LgPi
                         + 3 * (LgDiameterFromH(gen.h_magnitude, draws[i].albedo)
                                - LgInt(2))),
         strength_mpa |-> Pos(draws[i].strength)]]

\* generate_cases(num_cases, density, diameter, speed, angle, longitude,
\* latitude, h_magnitude): builds the generator from seven arguments, samples
\* num_cases rows, then reads the columns 'diameter' and 'speed' of the
\* sampled table (KeyError when a column is missing) to add impact_energy_mt.
generate_cases(cfg, draws) ==
    LET gen == AsteroidPropertyGenerator(<<cfg.density, cfg.diameter, cfg.speed,
                 cfg.angle, cfg.longitude, cfg.latitude, cfg.h_magnitude>>)
    IN IF "exception" \in DOMAIN gen THEN gen
       ELSE LET df == sample_properties(gen, draws)
            IN IF \E i \in 1..Len(df) : ~({"diameter", "density", "speed"} \subseteq DOMAIN df[i])
               THEN [exception |-> "KeyError"]
               ELSE [table |-> [i \in 1..Len(df) |->
                        Merge(df[i], [impact_energy_mt |->
                              Pos(LgImpactEnergyMt(df[i].diameter, df[i].speed))])]]

(***************************************************************************)
(* Vulnerability aggregator (simulation/damage_models/vulnerability_models) *)
(***************************************************************************)

\* The scores the aggregator may return.
Scores == {Zero, Pos(0)}

\* VulnerabilityCalculator.calculate_all_vulnerabilities(case, entry_result,
\* cr_result): a flat mapping of scalar scores under keys of its own.
calculate_all_vulnerabilities(case, entry_result, cr_result, score) ==
    [vulnerability_combined |-> score]

(***************************************************************************)
(* Orchestrator: core/orchestrator.py                                      *)
(***************************************************************************)

VARIABLES
    config,          \* Orchestrator.config
    gen_runs,        \* outcomes of the generate_cases calls made so far
    impact_cases,    \* the case table the loop iterates over
    idx,             \* position of the loop in impact_cases (1-based)
    pc,              \* the statement of run_simulation about to run
    entry_result, cr_result, local_damage, tsunami_damage, global_effects,
    vulnerability,   \* the loop body's locals
    case_result,     \* the merged record of the current case
    results,         \* the list of case_result dicts
    results_df,      \* the table run_simulation returned
    exception,       \* the exception that left run_simulation
    call, ret,       \* a direct call of one model function and its result
    trajectory       \* sol of a direct call of the crater model

vars == <<config, gen_runs, impact_cases, idx, pc, entry_result, cr_result,
          local_damage, tsunami_damage, global_effects, vulnerability,
          case_result, results, results_df, exception, call, ret, trajectory>>

loop_vars == <<impact_cases, idx, pc, entry_result, cr_result, local_damage,
               tsunami_damage, global_effects, vulnerability, case_result,
               results, results_df, exception>>

\* Largest case table of the loop specification.
MaxCases == 2
\* Number of runs of the table builder under one configuration.
MaxRuns == 2

EmptyDict == [x \in {} |-> 0]
NoConfig == [num_cases |-> 0]
NoCall == [fn |-> "none"]
NoTrajectory == [t |-> <<>>]
Pending == [pending |-> TRUE]

\* (diameter, density, speed, angle) of the rows of the loop's case tables:
\* a body that breaks up high, one whose breakup formula goes below ground,
\* one that does not break up, and one above the global-effects threshold.
TableInputs == {<<1000, 5000, 11, 90>>, <<1000, 5000, 1, 90>>,
                <<10, 7000, 1, 1>>, <<20000, 3000, 20, 45>>}

TableRows == {CaseRow(x[1], x[2], x[3], x[4]) : x \in TableInputs}

RECURSIVE Tables(_)
Tables(n) ==
    IF n = 0 THEN {<<>>}
    ELSE Tables(n - 1) \cup {Append(t, r) : t \in {u \in Tables(n - 1) : Len(u) = n - 1},
                                             r \in TableRows}

\* run_simulation at the head of its loop over impact_cases (line 66), with
\* the table of cases generate_cases is declared to return.
Init ==
    /\ config = NoConfig
    /\ gen_runs = <<>>
    /\ impact_cases \in Tables(MaxCases)
    /\ idx = 1
    /\ pc = "entry"
    /\ entry_result = EmptyDict
    /\ cr_result = EmptyDict
    /\ local_damage = EmptyDict
    /\ tsunami_damage = EmptyDict
    /\ global_effects = EmptyDict
    /\ vulnerability = EmptyDict
    /\ case_result = EmptyDict
    /\ results = <<>>
    /\ results_df = Pending
    /\ exception = "none"
    /\ call = NoCall
    /\ ret = Pending
    /\ trajectory = NoTrajectory

InLoop == pc = "entry" /\ idx <= Len(impact_cases)

\* Mutant: every iteration reading the first row of the table.
case_First == impact_cases[1]

case == impact_cases[idx]

\* entry_result = self.fcm.run_entry(case); an exception leaves run_simulation.
RunEntry ==
    /\ InLoop
    /\ IF Raised(run_entry(case))
       THEN /\ exception' = run_entry(case).exception
            /\ pc' = "raised"
            /\ UNCHANGED entry_result
       ELSE /\ entry_result' = run_entry(case)
            /\ pc' = "crater"
            /\ UNCHANGED exception
    /\ UNCHANGED <<trajectory, case_result, config, gen_runs, impact_cases, idx, cr_result, local_damage,
                   tsunami_damage, global_effects, vulnerability, results,
                   results_df, call, ret>>

\* What leaves run_simulation when run_entry raises: the exception object as
\* the stage raised it, with the traceback of the frames it crossed.  The
\* loop has no except clause, so nothing is added to it on the way out.
Diagnostic ==
    [exception |-> exception, traceback |-> <<"run_simulation", "run_entry">>]

\* cr_result = self.crm.run_impact_crater_model(case, entry_result)
RunCrater ==
    /\ pc = "crater"
    /\ \E sol \in SolveIvp(InitialState(case, entry_result), ThetaDescent(case)) :
         \E imax \in 1..Len(sol.t) :
            cr_result' = run_impact_crater_model(case, entry_result, sol, imax)
    /\ pc' = "local"
    /\ UNCHANGED <<trajectory, case_result, config, gen_runs, impact_cases, idx, entry_result, local_damage,
                   tsunami_damage, global_effects, vulnerability, results,
                   results_df, exception, call, ret>>

\* local_damage = self.local_damage_model.calculate_damage(case, entry_result)
LocalDamage ==
    /\ pc = "local"
    /\ local_damage' = local_calculate_damage(case, entry_result)
    /\ pc' = "tsunami"
    /\ UNCHANGED <<trajectory, case_result, config, gen_runs, impact_cases, idx, entry_result, cr_result,
                   tsunami_damage, global_effects, vulnerability, results,
                   results_df, exception, call, ret>>

\* tsunami_damage = self.tsunami_model.calculate_damage(case, entry_result)
TsunamiDamage ==
    /\ pc = "tsunami"
    /\ tsunami_damage' = tsunami_calculate_damage(case, entry_result)
    /\ pc' = "global"
    /\ UNCHANGED <<trajectory, case_result, config, gen_runs, impact_cases, idx, entry_result, cr_result,
                   local_damage, global_effects, vulnerability, results,
                   results_df, exception, call, ret>>

\* global_effects = self.global_effects_model.calculate_damage(case, entry_result)
GlobalEffects ==
    /\ pc = "global"
    /\ global_effects' = global_calculate_damage(case, entry_result)
    /\ pc' = "vulnerability"
    /\ UNCHANGED <<trajectory, case_result, config, gen_runs, impact_cases, idx, entry_result, cr_result,
                   local_damage, tsunami_damage, vulnerability, results,
                   results_df, exception, call, ret>>

\* vulnerability = self.vulnerability.calculate_all_vulnerabilities(case,
\*                     entry_result, cr_result)
Vulnerability ==
    /\ pc = "vulnerability"
    /\ \E score \in Scores :
         vulnerability' = calculate_all_vulnerabilities(case, entry_result, cr_result, score)
    /\ pc' = "consolidate"
    /\ UNCHANGED <<trajectory, case_result, config, gen_runs, impact_cases, idx, entry_result, cr_result,
                   local_damage, tsunami_damage, global_effects, results,
                   results_df, exception, call, ret>>

\* case_result = {**case.to_dict(), **entry_result, **cr_result, **local_damage,
\*                **tsunami_damage, **global_effects, **vulnerability}
MergedResult(c, er, cr, ld, td, ge, vu) ==
    Merge(Merge(Merge(Merge(Merge(Merge(c, er), cr), ld), td), ge), vu)

\* case_result['affected_population_global'] = fraction * 7.8e9
GlobalPopulation(fraction) == NumMul(fraction, Pos(Lg(78, -8)))

\* The three population estimates and max_affected_population added to the
\* merged case_result (step 3 of the loop body).
WithPopulation(m) ==
    LET local == calculate_affected_population(m["blast_radius_1psi_km"], DefaultPopDensity)
        tsunami == calculate_affected_population(m["tsunami_runup_m"], DefaultPopDensity)
        global == GlobalPopulation(m["global_effects_fraction"])
    IN Merge(m, [affected_population_local |-> local,
                 affected_population_tsunami |-> tsunami,
                 affected_population_global |-> global,
                 max_affected_population |-> Max3(local, tsunami, global)])

\* Mutant: the record inserted at the head of the list.
AppendResult_Front(list, record) == <<record>> \o list

\* Mutant: the record of the case not put on the list.
AppendResult_Drop(list, record) == list

\* results.append(case_result)
AppendResult(list, record) == Append(list, record)

\* case_result = {**case.to_dict(), **entry_result, ..., **vulnerability}:
\* the partial maps of the case merged into one dict.
Consolidate ==
    /\ pc = "consolidate"
    /\ case_result' = MergedResult(case, entry_result, cr_result, local_damage,
                                   tsunami_damage, global_effects, vulnerability)
    /\ pc' = "population"
    /\ UNCHANGED <<trajectory, config, gen_runs, impact_cases, idx, entry_result,
                   cr_result, local_damage, tsunami_damage, global_effects,
                   vulnerability, results, results_df, exception, call, ret>>

\* Step 3 of the loop body: the population estimates and their maximum, read
\* from the merged case_result and stored into it.
Population ==
    /\ pc = "population"
    /\ case_result' = WithPopulation(case_result)
    /\ pc' = "append"
    /\ UNCHANGED <<trajectory, config, gen_runs, impact_cases, idx, entry_result,
                   cr_result, local_damage, tsunami_damage, global_effects,
                   vulnerability, results, results_df, exception, call, ret>>

\* results.append(case_result), and the for statement moving to the next row.
AppendRecord ==
    /\ pc = "append"
    /\ results' = AppendResult(results, case_result)
    /\ idx' = idx + 1
    /\ pc' = "entry"
    /\ UNCHANGED <<trajectory, case_result, config, gen_runs, impact_cases, entry_result,
                   cr_result, local_damage, tsunami_damage, global_effects,
                   vulnerability, results_df, exception, call, ret>>

\* results_df = pd.DataFrame(results); return results_df
Aggregate ==
    /\ pc = "entry"
    /\ idx > Len(impact_cases)
    /\ results_df' = [table |-> results]
    /\ pc' = "returned"
    /\ UNCHANGED <<trajectory, case_result, config, gen_runs, impact_cases, idx, entry_result, cr_result,
                   local_damage, tsunami_damage, global_effects, vulnerability,
                   results, exception, call, ret>>

Next ==
    \/ RunEntry
    \/ RunCrater
    \/ LocalDamage
    \/ TsunamiDamage
    \/ GlobalEffects
    \/ Vulnerability
    \/ Consolidate
    \/ Population
    \/ AppendRecord
    \/ Aggregate

Spec == Init /\ [][Next]_vars

(***************************************************************************)
(* run_simulation from its first statement: the call of generate_cases     *)
(***************************************************************************)

default_num_cases == 1000
default_h_magnitude == 22
default_density == 5000
default_diameter == 1000
default_speed == 11
default_angle == 8

\* The arguments run_simulation passes to generate_cases:
\* self.config.get(key, default) for each of the eight keys.
GenerateArgs(cfg) ==
    [num_cases |-> Get(cfg, "num_cases", default_num_cases),
     h_magnitude |-> Get(cfg, "h_magnitude", default_h_magnitude),
     density |-> Get(cfg, "density", default_density),
     diameter |-> Get(cfg, "diameter", default_diameter),
     speed |-> Get(cfg, "speed", default_speed),
     angle |-> Get(cfg, "angle", default_angle),
     longitude |-> Get(cfg, "longitude", 0),
     latitude |-> Get(cfg, "latitude", 0)]

\* Configurations: statistical (num_cases and h_magnitude only) and
\* deterministic (the six fixed scalars as well).
StatisticalConfigs ==
    {[num_cases |-> n, h_magnitude |-> h] : n \in {1, 2}, h \in {22, 30}}

DeterministicConfigs ==
    {[num_cases |-> n, h_magnitude |-> h, density |-> rho, diameter |-> d,
      speed |-> s, angle |-> a, longitude |-> 0, latitude |-> 0]
       : n \in {1, 2}, h \in {22, 30}, rho \in {3000, 5000}, d \in {10, 1000},
         s \in {11, 20}, a \in {45, 90}}

\* Configurations with a sample count or a fixed scalar that is not positive.
InvalidConfigs ==
    {[num_cases |-> n, h_magnitude |-> 22] : n \in {0, -1}}
    \cup {[num_cases |-> 1, h_magnitude |-> 22, density |-> x[1], diameter |-> x[2],
           speed |-> x[3], angle |-> x[4], longitude |-> 0, latitude |-> 0]
            : x \in {<<0, 1000, 11, 90>>, <<5000, -1, 11, 90>>,
                     <<5000, 1000, 0, 90>>, <<5000, 1000, 11, -8>>}}

IsDeterministic(cfg) ==
    {"density", "diameter", "speed", "angle", "longitude", "latitude"} \subseteq DOMAIN cfg

\* The draws of np.random.uniform for one row: albedo in [0.02, 0.5] (per
\* mille), density in [1500, 7000], strength exponent in [-1, 1] (lg).
Draws == {[albedo |-> al, density |-> rho, strength |-> st]
            : al \in {20, 500}, rho \in {1500, 7000}, st \in {-1000, 1000}}

RECURSIVE DrawSeqs(_)
DrawSeqs(n) ==
    IF n = 0 THEN {<<>>}
    ELSE {Append(t, r) : t \in DrawSeqs(n - 1), r \in Draws}

Idle ==
    /\ impact_cases = <<>>
    /\ idx = 1
    /\ entry_result = EmptyDict
    /\ cr_result = EmptyDict
    /\ local_damage = EmptyDict
    /\ tsunami_damage = EmptyDict
    /\ global_effects = EmptyDict
    /\ vulnerability = EmptyDict
    /\ case_result = EmptyDict
    /\ results = <<>>
    /\ results_df = Pending
    /\ exception = "none"

InitGen ==
    /\ config \in StatisticalConfigs \cup DeterministicConfigs \cup InvalidConfigs
    /\ gen_runs = <<>>
    /\ pc = "generate"
    /\ Idle
    /\ call = NoCall
    /\ ret = Pending
    /\ trajectory = NoTrajectory

\* impact_cases = generate_cases(...) of one run of run_simulation under
\* config; the sampler draws only once the generator is constructed.  The
\* outcome, a table or the exception that ends the run, is recorded per run.
GenerateCases ==
    /\ pc = "generate"
    /\ Len(gen_runs) < MaxRuns
    /\ \E draws \in IF Raised(generate_cases(GenerateArgs(config), <<>>)) THEN {<<>>}
                     ELSE DrawSeqs(GenerateArgs(config).num_cases) :
         gen_runs' = Append(gen_runs, generate_cases(GenerateArgs(config), draws))
    /\ UNCHANGED <<trajectory, config, loop_vars, call, ret>>

NextGen == GenerateCases

SpecGen == InitGen /\ [][NextGen]_vars

(***************************************************************************)
(* Direct calls of the model functions on inputs from bounded sets         *)
(***************************************************************************)

Diameters == {1, 10, 1000, 20000}
Densities == {1500, 5000, 7000}
Speeds == {1, 11, 30}
Angles == {1, 45, 90}

Cases == {CaseRow(d, rho, s, a) : d \in Diameters, rho \in Densities,
                                   s \in Speeds, a \in Angles}

\* Footprints and densities passed to calculate_affected_population.
Footprints == {Zero, NaN, Neg(0), Neg(2000), Pos(-1000), Pos(0), Pos(1500)}
PopDensities == {DefaultPopDensity, Zero, Pos(3000), Neg(0), NaN}

\* impact_energy_mt values passed to the global-effects model: 1e-3 Mt to
\* 1e15 Mt (1e12 Gt), 40 Gt and 100 Gt and their neighbours, zero, NaN.
Energies == {Pos(-3000), Pos(3000), Pos(4602), Pos(4603), Pos(4900), Pos(5000),
             Pos(5001), Pos(5400), Pos(7000), Pos(8999), Pos(9000), Pos(9001),
             Pos(15000), Zero, Neg(5000), NaN}

Calls ==
    {[fn |-> "run_entry", case |-> c] : c \in Cases}
    \cup {[fn |-> "run_impact_crater_model", case |-> c] : c \in {x \in Cases : BreaksUp(x)}}
    \cup {[fn |-> "calculate_affected_population", damage_footprint |-> f, pop_density |-> p]
            : f \in Footprints, p \in PopDensities}
    \cup {[fn |-> "global_calculate_damage", case |-> [impact_energy_mt |-> e]]
            : e \in Energies}

InitFn ==
    /\ config = NoConfig
    /\ gen_runs = <<>>
    /\ pc = "call"
    /\ Idle
    /\ call \in Calls
    /\ ret = Pending
    /\ trajectory = NoTrajectory

CallRunEntry ==
    /\ call.fn = "run_entry"
    /\ ret = Pending
    /\ ret' = run_entry(call.case)
    /\ UNCHANGED <<trajectory, config, gen_runs, loop_vars, call>>

\* The crater model on the entry result of the same case.
CallCrater ==
    /\ call.fn = "run_impact_crater_model"
    /\ ret = Pending
    /\ \E sol \in SolveIvp(InitialState(call.case, run_entry(call.case)),
                           ThetaDescent(call.case)) :
         \E imax \in 1..Len(sol.t) :
            /\ trajectory' = sol
            /\ ret' = run_impact_crater_model(call.case, run_entry(call.case), sol, imax)
    /\ UNCHANGED <<config, gen_runs, loop_vars, call>>

CallPopulation ==
    /\ call.fn = "calculate_affected_population"
    /\ ret = Pending
    /\ ret' = [value |-> calculate_affected_population(call.damage_footprint,
                                                        call.pop_density)]
    /\ UNCHANGED <<trajectory, config, gen_runs, loop_vars, call>>

CallGlobalEffects ==
    /\ call.fn = "global_calculate_damage"
    /\ ret = Pending
    /\ ret' = global_calculate_damage(call.case, EmptyDict)
    /\ UNCHANGED <<trajectory, config, gen_runs, loop_vars, call>>

NextFn ==
    \/ CallRunEntry
    \/ CallCrater
    \/ CallPopulation
    \/ CallGlobalEffects

SpecFn == InitFn /\ [][NextFn]_vars

(***************************************************************************)
(* Properties                                                              *)
(***************************************************************************)

EntryReturned == call.fn = "run_entry" /\ ret # Pending

\* C1: for every valid Case whose I_f is >= 1, run_entry returns (does not
\* raise) an EntryResult with burst_altitude_km == 0 and a defined
\* speed_at_breakup_ms.
C1_NoBreakupReturnsResult ==
    (EntryReturned /\ ~BreaksUp(call.case)) =>
        /\ ~Raised(ret)
        /\ ret.burst_altitude_km = Zero
        /\ "speed_at_breakup_ms" \in DOMAIN ret

\* C2: for every valid Case (0 < angle <= 90), the breakup branch included,
\* the burst_altitude_km returned by run_entry is >= 0.
C2_BurstAltitudeNonNegative ==
    (EntryReturned /\ ~Raised(ret)) => NumLe(Zero, ret.burst_altitude_km)

CaseKeys == {"diameter", "density", "speed", "angle", "impact_energy_mt"}

\* row is the record of case c: it carries c's inputs and the blast radius and
\* global-effects fraction computed from c.
IsRecordOf(row, c) ==
    /\ \A k \in CaseKeys : row[k] = c[k]
    /\ row["blast_radius_1psi_km"] = calculate_blast(c, EmptyDict).blast_radius_1psi_km
    /\ row["global_effects_fraction"] =
           global_calculate_damage(c, EmptyDict).global_effects_fraction

\* C3: a run of run_simulation that completes returns exactly one CaseRecord
\* per case, and the i-th row is the record of the i-th case of the table.
C3_OneRecordPerCaseInOrder ==
    pc = "returned" =>
        /\ Len(results_df.table) = Len(impact_cases)
        /\ \A i \in 1..Len(impact_cases) : IsRecordOf(results_df.table[i], impact_cases[i])

C3_Witness ==
    /\ pc = "returned"
    /\ Len(results_df.table) = 2
    /\ impact_cases[1] # impact_cases[2]

\* C4: in every CaseRecord, max_affected_population is the maximum of the
\* three channel estimates of that record: one of them, and >= each of them.
C4_MaxIsMaximumOfChannels ==
    \A i \in 1..Len(results) :
        LET r == results[i]
            three == {r["affected_population_local"], r["affected_population_tsunami"],
                      r["affected_population_global"]}
        IN /\ r["max_affected_population"] \in three
           /\ \A x \in three : NumLe(x, r["max_affected_population"])

C4_Witness ==
    \E i \in 1..Len(results) :
        /\ NumLt(results[i]["affected_population_local"],
                 results[i]["affected_population_global"])
        /\ results[i]["max_affected_population"] = results[i]["affected_population_global"]

PopulationReturned == call.fn = "calculate_affected_population" /\ ret # Pending

\* pi * r^2 * pop_density for a positive footprint r.
CircleTimesDensity(r, p) ==
    IF p.k = "nan" THEN NaN
    ELSE IF p.k = "zero" THEN Zero
    ELSE [k |-> p.k, lg |-> LgPi + 2 * r.lg + p.lg]

\* C5: calculate_affected_population returns 0 for every footprint that is
\* zero, negative or NaN, whatever the density; for a positive footprint r it
\* returns pi * r^2 * pop_density.
C5_PopulationFailsSafe ==
    PopulationReturned =>
        /\ call.damage_footprint.k \in {"zero", "neg", "nan"} => ret.value = Zero
        /\ call.damage_footprint.k = "pos" =>
              ret.value = CircleTimesDensity(call.damage_footprint, call.pop_density)

C5_Witness ==
    /\ PopulationReturned
    /\ call.damage_footprint = NaN
    /\ call.pop_density = DefaultPopDensity
    /\ ret.value = Zero

CraterReturned == call.fn = "run_impact_crater_model" /\ ret # Pending

\* C6: for every CraterResult with airburst_bool == True, diameter_ground_m
\* is 2 * sqrt(7) * radius0, radius0 being half the Case diameter.
C6_AirburstFullyExpanded ==
    (CraterReturned /\ ret.airburst_bool) =>
        ret.diameter_ground_m =
            Pos(LgInt(2) + LgInt(7) \div 2 + Lg(call.case.diameter * 500, 3))

C6_Witness ==
    /\ CraterReturned
    /\ ret.airburst_bool
    /\ call.case.diameter = 20000

GlobalReturned == call.fn = "global_calculate_damage" /\ ret # Pending

\* C7: global_effects_fraction lies within [0, 1] for every impact energy,
\* arbitrarily large ones included.
C7_FractionWithinUnitInterval ==
    GlobalReturned =>
        /\ NumLe(Zero, ret.global_effects_fraction)
        /\ NumLe(ret.global_effects_fraction, Pos(0))

\* energy_gt = 1e12: the fraction is clamped to 1.
C7_Witness ==
    /\ GlobalReturned
    /\ call.case.impact_energy_mt = Pos(15000)
    /\ ret.global_effects_fraction = Pos(0)

\* clamp(x, 0, 1) in milli-units.
Clamp01(x) == IF x < 0 THEN 0 ELSE IF x > 1000 THEN 1000 ELSE x

\* C8: global_effects_fraction is 0 whenever the energy is at or below 40 Gt,
\* and clamp(0.25 * (log10(E_gt) - 2), 0, 1) for every energy above 40 Gt.
C8_FractionIsClampedLogFit ==
    GlobalReturned =>
        LET e == call.case.impact_energy_mt
            above == e.k = "pos" /\ e.lg - 3000 > LgInt(40)
        IN /\ (e.k \in {"zero", "neg"} \/ (e.k = "pos" /\ ~above)) =>
                 ret.global_effects_fraction = Zero
           /\ above =>
                 ret.global_effects_fraction =
                     NumOfMilli(Clamp01((250 * (e.lg - 3000 - 2000)) \div 1000))

\* 10^2.4 Gt: a fraction of 0.1, strictly inside (0, 1).
C8_Witness ==
    /\ GlobalReturned
    /\ call.case.impact_energy_mt = Pos(5400)
    /\ ret.global_effects_fraction = NumOfMilli(100)

\* C9: the tsunami model returns exactly {tsunami_runup_m: 0}, so
\* affected_population_tsunami is 0 in every CaseRecord and is below
\* max_affected_population unless the other two estimates are 0 as well.
C9_TsunamiStubNeverDominates ==
    /\ pc \in {"global", "vulnerability", "consolidate"} =>
           tsunami_damage = [tsunami_runup_m |-> Zero]
    /\ \A i \in 1..Len(results) :
           LET r == results[i]
           IN /\ r["tsunami_runup_m"] = Zero
              /\ r["affected_population_tsunami"] = Zero
              /\ (r["affected_population_local"] # Zero
                   \/ r["affected_population_global"] # Zero) =>
                     NumLt(r["affected_population_tsunami"], r["max_affected_population"])

C9_Witness ==
    \E i \in 1..Len(results) :
        /\ results[i]["affected_population_tsunami"] = Zero
        /\ results[i]["affected_population_global"] = Zero
        /\ results[i]["max_affected_population"] = results[i]["affected_population_local"]
        /\ results[i]["affected_population_local"].k = "pos"

\* One run's outcome is a table of n rows that carry the fixed scalars of cfg.
IsFixedTable(outcome, cfg) ==
    /\ "table" \in DOMAIN outcome
    /\ Len(outcome.table) = cfg.num_cases
    /\ \A i \in 1..Len(outcome.table) :
          \A k \in {"diameter", "density", "speed", "angle", "longitude", "latitude"} :
              k \in DOMAIN outcome.table[i] /\ outcome.table[i][k] = cfg[k]

\* C10: two runs in deterministic mode under one configuration yield
\* identical case tables, each of whose n rows carries exactly the supplied
\* fixed scalars.
C10_DeterministicRunsIdentical ==
    (IsDeterministic(config) /\ Len(gen_runs) = 2) =>
        /\ IsFixedTable(gen_runs[1], config)
        /\ IsFixedTable(gen_runs[2], config)
        /\ gen_runs[1] = gen_runs[2]

\* C11: a configuration that supplies only num_cases and h_magnitude makes
\* run_simulation sample its cases statistically from h_magnitude: the call
\* of generate_cases yields a table of num_cases sampled rows.
C11_StatisticalModeSamples ==
    (~IsDeterministic(config) /\ Len(gen_runs) >= 1) =>
        \A i \in 1..Len(gen_runs) :
            /\ "table" \in DOMAIN gen_runs[i]
            /\ Len(gen_runs[i].table) = GenerateArgs(config).num_cases

\* C12: for the case diameter = 1000 m, density = 5000 kg/m3, speed = 11 km/s,
\* angle = 90 degrees, run_entry finds I_f >= 1 and yields
\* burst_altitude_km = 0.
C12_ReferenceCaseReachesGround ==
    (EntryReturned /\ call.case = CaseRow(1000, 5000, 11, 90)) =>
        /\ ~BreaksUp(call.case)
        /\ ~Raised(ret)
        /\ ret.burst_altitude_km = Zero

\* The trajectory ends above ground, or its last mass or velocity is <= 0 or NaN.
Diverged(sol) ==
    LET n == Len(sol.t)
    IN \/ sol.h[n] > 0
       \/ sol.m[n].k # "pos"
       \/ sol.v[n].k # "pos"

\* C13: when the descent integration does not reach the ground within its
\* time bound, or the integrated mass or velocity becomes <= 0 or NaN,
\* run_impact_crater_model raises NumericalDivergence and returns no
\* CraterResult.
C13_DivergenceIsRaised ==
    (CraterReturned /\ Diverged(trajectory)) =>
        /\ Raised(ret)
        /\ ret.exception = "NumericalDivergence"

\* The arguments of generate_cases hold a sample count or a scalar <= 0.
IsInvalid(args) ==
    \/ args.num_cases <= 0
    \/ \E k \in {"diameter", "density", "speed", "angle"} : args[k] <= 0

\* C14: a zero or negative sample count, or a non-positive diameter, density,
\* speed or angle, is rejected by generate_cases / sample_properties with an
\* InvalidInput error.
C14_InvalidInputRejected ==
    (IsInvalid(GenerateArgs(config)) /\ Len(gen_runs) >= 1) =>
        \A i \in 1..Len(gen_runs) :
            /\ Raised(gen_runs[i])
            /\ gen_runs[i].exception = "InvalidInput"

\* The rows of a case table on which the entry model fails.
FailingRows == {c \in TableRows : "exception" \in DOMAIN run_entry(c)}

\* The entry model fails on case i of the table.
FailsAt(i) == impact_cases[i] \in FailingRows

\* C15: a failure raised while processing case i is not swallowed: it leaves
\* run_simulation as the exception raised, the loop goes no further than
\* case i, neither case i nor a later one gets a record, and no result table
\* is returned.
C15_FailurePropagates ==
    \A i \in 1..Len(impact_cases) :
        FailsAt(i) =>
            /\ idx <= i
            /\ Len(results) < i
            /\ results_df = Pending
            /\ pc # "returned"
            /\ (idx = i /\ pc # "entry") =>
                  (pc = "raised" /\ exception = run_entry(impact_cases[i]).exception)

\* The second case fails after the first one got its record.
C15_Witness ==
    /\ pc = "raised"
    /\ idx = 2
    /\ Len(results) = 1
    /\ FailsAt(2)
    /\ results_df = Pending

\* C16: when a case fails, the diagnostic the run terminates with identifies
\* the index of the failing case and the pipeline stage that failed.
C16_DiagnosticNamesCaseAndStage ==
    pc = "raised" =>
        /\ \E f \in 1..Len(Diagnostic.traceback) : Diagnostic.traceback[f] = "run_entry"
        /\ "case_index" \in DOMAIN Diagnostic
        /\ Diagnostic["case_index"] = idx

\* The partial maps merged into the record of the current case, in merge order.
PartialMaps ==
    <<case, entry_result, cr_result, local_damage, tsunami_damage, global_effects,
      vulnerability>>

\* C17: the partial maps merged into a CaseRecord have pairwise disjoint key
\* sets, and the burst_altitude_km of the EntryResult is the one the
\* CaseRecord carries.
C17_NoKeyOverwritten ==
    /\ pc = "consolidate" =>
          \A a, b \in 1..Len(PartialMaps) :
              a # b => DOMAIN PartialMaps[a] \cap DOMAIN PartialMaps[b] = {}
    /\ \A i \in 1..Len(results) :
          results[i]["burst_altitude_km"] = run_entry(impact_cases[i]).burst_altitude_km

\* The records the pipeline can produce for case c processed on its own: the
\* stages applied to c and to each other's results for c, over every
\* trajectory the integrator may return and every score.
RecordsOf(c) ==
    LET er == run_entry(c)
    IN IF "exception" \in DOMAIN er THEN {}
       ELSE UNION {
              { WithPopulation(MergedResult(c, er,
                    run_impact_crater_model(c, er, sol, imax),
                    local_calculate_damage(c, er),
                    tsunami_calculate_damage(c, er),
                    global_calculate_damage(c, er),
                    calculate_all_vulnerabilities(c, er,
                        run_impact_crater_model(c, er, sol, imax), score)))
                : imax \in 1..Len(sol.t), score \in Scores }
              : sol \in SolveIvp(InitialState(c, er), ThetaDescent(c)) }

\* RecordsOf tabulated over the rows a case table is made of: the pairs
\* (case, record of that case).
RecordTable == UNION {{<<c, r>> : r \in RecordsOf(c)} : c \in TableRows}

GroundSpeeds == {0, 1000, 2041, 2042, 2500, 3000, 4301, 4857}

\* C19: for fixed ground diameter, densities and impact angle, a larger
\* ground-impact velocity never yields a smaller
\* transient_crater_diameter_m than the one of the returned CraterResult.
C19_CraterMonotonicInVelocity ==
    CraterReturned =>
        \A v \in GroundSpeeds :
            v >= ret.speed_at_ground_ms.lg =>
                NumLe(ret.transient_crater_diameter_m,
                      Round2(LgDtr(call.case, ret.diameter_ground_m.lg, v)))

\* A larger velocity with a strictly larger transient crater.
C19_Witness ==
    /\ CraterReturned
    /\ \E v \in GroundSpeeds :
          /\ v > ret.speed_at_ground_ms.lg
          /\ NumLt(ret.transient_crater_diameter_m,
                   Round2(LgDtr(call.case, ret.diameter_ground_m.lg, v)))

\* C20: with h_magnitude = 30 and no fixed scalars, the pipeline's case
\* table has every sampled diameter between about 1.9 m and 9.4 m, and the
\* global-effects model gives global_effects_fraction == 0 for every case.
C20_TinyObjectsNoGlobalEffects ==
    (config.h_magnitude = 30 /\ ~IsDeterministic(config) /\ Len(gen_runs) >= 1) =>
        \A i \in 1..Len(gen_runs) :
            /\ "table" \in DOMAIN gen_runs[i]
            /\ \A j \in 1..Len(gen_runs[i].table) :
                  LET row == gen_runs[i].table[j]
                  IN /\ row.diameter_m.lg >= Lg(18, 1)
                     /\ row.diameter_m.lg <= Lg(95, 1)
                     /\ global_calculate_damage(row, EmptyDict).global_effects_fraction = Zero

\* The statements of the loop body in the order the claim gives them, and in
\* the order of the amended claim, by the names pc takes.
ClaimedStageOrder ==
    <<"entry", "crater", "local", "tsunami", "global", "vulnerability",
      "population", "consolidate", "append">>

AmendedStageOrder ==
    <<"entry", "crater", "local", "tsunami", "global", "vulnerability",
      "consolidate", "population", "append">>

\* Stage b comes right after stage a in the cyclic order, or a is the head of
\* the loop and b one of its two exits.
Follows(order, a, b) ==
    \/ \E k \in 1..Len(order) : order[k] = a /\ order[(k % Len(order)) + 1] = b
    \/ a = "entry" /\ b \in {"raised", "returned"}

\* The entry result of each row: the pairs (case, run_entry(case)).
EntryTable == {<<c, run_entry(c)>> : c \in TableRows \ FailingRows}

\* The crater results the crater model gives for each row on the entry result
\* of that row: the pairs (case, cr_result).
CraterTable ==
    UNION {{<<c, run_impact_crater_model(c, run_entry(c), sol, imax)>>
              : sol \in SolveIvp(InitialState(c, run_entry(c)), ThetaDescent(c)),
                imax \in {1, 2}}
           : c \in TableRows \ FailingRows}

\* The crater model of the current case was given that case's entry result,
\* and the records of all earlier cases are on the list.
OwnEntryResultAndRecordsBefore ==
    /\ pc # "raised" => Len(results) = idx - 1
    /\ pc \notin {"entry", "raised", "returned"} =>
          <<impact_cases[idx], entry_result>> \in EntryTable
    /\ pc \in {"local", "tsunami", "global", "vulnerability", "consolidate"} =>
          <<impact_cases[idx], cr_result>> \in CraterTable

\* C21 as stated: for each case the stages run strictly in the order entry
\* model, crater model, the four damage channels, population estimate, merge,
\* append; the crater model is called with the EntryResult of the same case,
\* and the record of case i is appended before any stage of case i+1 starts.
C21_StagesInClaimedOrder ==
    /\ [][pc' # pc => Follows(ClaimedStageOrder, pc, pc')]_vars
    /\ []OwnEntryResultAndRecordsBefore

\* C21 as amended: the stages run strictly in the order entry model, crater
\* model, the four damage channels, merge of the partial maps, population
\* estimate (read from the merged record and stored into it), append; the
\* crater model is called with the EntryResult of the same case, and the
\* record of case i is appended before any stage of case i+1 starts.
C21_StagesInOrder ==
    /\ [][pc' # pc => Follows(AmendedStageOrder, pc, pc')]_vars
    /\ []OwnEntryResultAndRecordsBefore

\* The second case at its crater stage, after a different first case got
\* its record.
C21_Witness ==
    /\ pc = "crater"
    /\ idx = 2
    /\ Len(results) = 1
    /\ impact_cases[1] # impact_cases[2]
    /\ entry_result = run_entry(impact_cases[2])
    /\ entry_result # run_entry(impact_cases[1])

\* 0.5 * m * v^2 / 4.184e15 with m = density * (4/3)*pi*(diameter/2)^3 and
\* v = speed * 1000, as lg.
LgEnergyOfMass(diameter, density, speed) ==
    Lg(5, 1) + (LgInt(density) + Lg(4, 0) - Lg(3, 0) + LgPi
                + 3 * (LgInt(diameter) - LgInt(2)))
    + 2 * LgInt(speed * 1000) - Lg(4184, -12)

\* C22: generate_cases sets impact_energy_mt = 0.5 * m * v^2 / 4.184e15 for
\* every row, with v = speed * 1000 m/s and m the pre-entry mass, density
\* times the sphere volume (4/3)*pi*(diameter/2)^3.
C22_NominalEnergyUsesDensity ==
    Len(gen_runs) >= 1 =>
        \A i \in 1..Len(gen_runs) :
            /\ "table" \in DOMAIN gen_runs[i]
            /\ \A j \in 1..Len(gen_runs[i].table) :
                  LET row == gen_runs[i].table[j]
                  IN row.impact_energy_mt =
                        Pos(LgEnergyOfMass(row.diameter, row.density, row.speed))

\* Floats a and b are the same number up to one step of the lg scale.
SameNum(a, b) ==
    /\ a.k = b.k
    /\ a.lg - b.lg \in {-1, 0, 1}

\* C23: the descent integration of run_impact_crater_model starts from the
\* breakup state the entry model computed for the same case: initial
\* altitude burst_altitude_km * 1000 m, initial velocity speed_at_breakup_ms,
\* initial mass density * sphere volume.
C23_DescentStartsAtBreakup ==
    CraterReturned =>
        /\ SameNum(NumOfMilli(trajectory.h[1]), run_entry(call.case).burst_altitude_km)
        /\ trajectory.v[1] = run_entry(call.case).speed_at_breakup_ms
        /\ trajectory.m[1] = Pos(LgMass0(call.case))

\* C24: the descent integration stops when altitude reaches zero: the last
\* trajectory point has altitude 0, no trajectory point has negative
\* altitude, speed_at_ground_ms is the velocity at that last point, and the
\* descent time is the time of ground crossing, not the end of the
\* integration span.
C24_DescentStopsAtGround ==
    CraterReturned =>
        LET n == Len(trajectory.t)
        IN /\ trajectory.h[n] = 0
           /\ \A k \in 1..n : trajectory.h[k] >= 0
           /\ ret.speed_at_ground_ms = trajectory.v[n]
           /\ trajectory.h[1] > 0 => trajectory.t[n] < t_span_end

\* C25: airburst_bool is True exactly when descent_time >= expansion_time,
\* with expansion_time = (radius_expanded - radius0) / 100; when it is False,
\* diameter_ground_m = 2 * (radius0 + 100 * descent_time), which is strictly
\* smaller than the fully expanded diameter.
C25_AirburstIffFullyExpandedInTime ==
    CraterReturned =>
        LET descent_ms == trajectory.t[Len(trajectory.t)] * 1000
            radius0 == call.case.diameter * 500
            expansion_ms == (Exp10(LgRadiusExpanded(call.case), 3) - radius0) \div 100
        IN /\ ret.airburst_bool <=> descent_ms >= expansion_ms
           /\ ~ret.airburst_bool =>
                 /\ ret.diameter_ground_m = Pos(Lg(2 * (radius0 + 100 * descent_ms), 3))
                 /\ ret.diameter_ground_m.lg < LgInt(2) + LgRadiusExpanded(call.case)

\* A descent shorter than the expansion time, with a partly expanded cloud.
C25_Witness ==
    /\ CraterReturned
    /\ ~ret.airburst_bool
    /\ trajectory.t[Len(trajectory.t)] * 1000 < ExpansionTime(call.case)
    /\ ret.diameter_ground_m.lg < LgDiameterExpanded(call.case)

\* The case with another impact angle (degrees).
AtAngle(c, a) == [c EXCEPT !.angle = a]

\* C26 as stated: transient_crater_diameter_m is
\* 1.161 * 9.81^-0.22 * (rho_p / (rho_t * sin(theta)))^0.333 * d^0.78 * v^0.44
\* with rho_t = 2000: the sine divides the density ratio, so for fixed other
\* inputs a shallower impact angle never gives a smaller transient crater.
C26_SineDividesDensityRatio ==
    CraterReturned =>
        LET d == ret.diameter_ground_m.lg
            v == ret.speed_at_ground_ms.lg
        IN /\ ret.transient_crater_diameter_m = Round2(LgDtr_SineDivides(call.case, d, v))
           /\ \A a \in Angles :
                 a <= call.case.angle =>
                     NumLe(ret.transient_crater_diameter_m,
                           Round2(LgDtr(AtAngle(call.case, a), d, v)))

\* C26 as amended: transient_crater_diameter_m is
\* 1.161 * 9.81^-0.22 * ((rho_p / rho_t) * sin(theta))^0.333 * d^0.78 * v^0.44
\* with rho_t = 2000: the sine multiplies the density ratio, so for fixed
\* other inputs a shallower impact angle never gives a larger transient
\* crater.
C26_SineMultipliesDensityRatio ==
    CraterReturned =>
        LET d == ret.diameter_ground_m.lg
            v == ret.speed_at_ground_ms.lg
            ratio == LgInt(call.case.density) - LgInt(2000)
            sine == Lg(Sin(Radians(call.case.angle * 1000000)), 6)
        IN /\ ret.transient_crater_diameter_m =
                 Round2(Lg(1161, 3) + ScaleLg(Lg(981, 2), -220)
                        + ScaleLg(ratio + sine, 333) + ScaleLg(d, 780) + ScaleLg(v, 440))
           /\ \A a \in Angles :
                 a <= call.case.angle =>
                     NumLe(Round2(LgDtr(AtAngle(call.case, a), d, v)),
                           ret.transient_crater_diameter_m)

\* A vertical impact whose crater is strictly larger than the one the same
\* body would make at 45 degrees.
C26_Witness ==
    /\ CraterReturned
    /\ call.case.angle = 90
    /\ NumLt(Round2(LgDtr(AtAngle(call.case, 45), ret.diameter_ground_m.lg,
                          ret.speed_at_ground_ms.lg)),
             ret.transient_crater_diameter_m)

\* C27: whenever run_impact_crater_model returns airburst_bool == False it
\* also returns burst_altitude_km == 0 and speed_at_burst_ms ==
\* speed_at_ground_ms; when airburst_bool == True the two fields are the
\* altitude and the velocity of one point of the trajectory, the one of
\* maximum energy loss per unit altitude.
C27_NoAirburstNoBurstEstimate ==
    CraterReturned =>
        /\ ~ret.airburst_bool =>
              /\ ret.burst_altitude_km = Zero
              /\ ret.speed_at_burst_ms = ret.speed_at_ground_ms
        /\ ret.airburst_bool =>
              \E k \in 1..Len(trajectory.t) :
                  /\ ret.burst_altitude_km = NumOfMilli(trajectory.h[k])
                  /\ ret.speed_at_burst_ms = trajectory.v[k]

\* No airburst, on a trajectory whose points all differ from what is
\* returned: the velocity fell along the way and the descent ended below
\* ground.
C27_Witness ==
    /\ CraterReturned
    /\ ~ret.airburst_bool
    /\ ret.burst_altitude_km = Zero
    /\ ret.speed_at_burst_ms = ret.speed_at_ground_ms
    /\ trajectory.v[1] # ret.speed_at_ground_ms
    /\ trajectory.h[Len(trajectory.t)] # 0

\* C28: the crater-depth branch always agrees with the crater-type branch:
\* a simple crater (D_tr < 3200 m, D_f = 1.25 * D_tr) has D_f < 4000 m and
\* depth 0.2 * D_f, a complex crater (D_tr >= 3200 m) has D_f >= 4000 m and
\* depth 0.1 * D_f.
C28_DepthBranchAgreesWithCraterType ==
    CraterReturned =>
        LET dtr == LgDtr(call.case, ret.diameter_ground_m.lg, ret.speed_at_ground_ms.lg)
            simple == Lg(125, 2) + dtr
            complex == Lg(13, 1) + ScaleLg(dtr, 1130) - ScaleLg(LgInt(3200), 130)
        IN IF dtr < LgInt(3200)
           THEN /\ ret.final_crater_diameter_m = Round2(simple)
                /\ simple < LgInt(4000)
                /\ ret.crater_depth_m = Round2(simple + Lg(2, 1))
           ELSE /\ ret.final_crater_diameter_m = Round2(complex)
                /\ complex >= LgInt(4000)
                /\ ret.crater_depth_m = Round2(complex + Lg(1, 1))

\* A complex crater of final diameter below 5000 m, a tenth of it deep.
C28_Witness ==
    /\ CraterReturned
    /\ ret.transient_crater_diameter_m.lg >= LgInt(3200)
    /\ ret.final_crater_diameter_m.lg >= LgInt(4000)
    /\ ret.final_crater_diameter_m.lg < LgInt(5000)
    /\ ret.crater_depth_m.lg - ret.final_crater_diameter_m.lg \in {-1001, -1000, -999}

\* Entry results other than the ones the entry model gives: a burst on the
\* ground at rest, a burst at 100 km at 10 km/s, a burst below ground.
OtherEntryResults ==
    {[burst_altitude_km |-> Zero, speed_at_breakup_ms |-> Zero],
     [burst_altitude_km |-> Pos(2000), speed_at_breakup_ms |-> Pos(4000)],
     [burst_altitude_km |-> Neg(1000), speed_at_breakup_ms |-> Pos(3000)]}

\* A case with the nominal energy of c and other inputs throughout.
SameEnergyCase(c) ==
    [diameter |-> 1, density |-> 1500, speed |-> 1, angle |-> 1,
     impact_energy_mt |-> c.impact_energy_mt]

\* The fields of a record that the local and the global damage models return.
DamageFields ==
    {"blast_radius_1psi_km", "blast_radius_4psi_km",
     "thermal_radius_3rd_degree_burns_km", "global_effects_fraction"}

\* What the local and the global damage models return for the other entry
\* results, for each row and for the other case of the row's nominal energy:
\* the pairs (impact_energy_mt, damage maps merged).
DamageTable ==
    UNION {{<<r.impact_energy_mt,
              Merge(local_calculate_damage(c, e), global_calculate_damage(c, e))>>
              : c \in {r, SameEnergyCase(r)}, e \in OtherEntryResults}
           : r \in TableRows}

\* C29: the outputs of LocalDamageModel.calculate_damage and
\* GlobalEffectsModel.calculate_damage depend only on the case's nominal
\* impact_energy_mt: the blast radii, the thermal radius and the
\* global_effects_fraction of every record are the ones the two models
\* return for any other EntryResult and any case of the same nominal energy,
\* whatever the entry and crater models computed for the case.
C29_DamageDependsOnNominalEnergyOnly ==
    \A i \in 1..Len(results) :
        \A p \in DamageTable :
            p[1] = impact_cases[i].impact_energy_mt =>
                /\ DOMAIN p[2] = DamageFields
                /\ \A k \in DamageFields : results[i][k] = p[2][k]

\* The same case twice, with different ground energies from the crater model
\* and an entry result that is none of the other ones, and the same damage.
C29_Witness ==
    /\ Len(results) = 2
    /\ impact_cases[1] = impact_cases[2]
    /\ results[1]["impact_energy_j"] # results[2]["impact_energy_j"]
    /\ run_entry(impact_cases[1]) \notin OtherEntryResults
    /\ results[1]["blast_radius_1psi_km"].k = "pos"
    /\ \A k \in DamageFields : results[1][k] = results[2][k]

\* C30: one and the same impact angle is used by all stages of a case: the
\* case's angle in degrees is converted to radians once, and the sine of that
\* value is what the entry model, the descent equation
\* dh/dt = -v*sin(theta) and the crater scaling each use.
C30_OneAngleForAllStages ==
    CraterReturned =>
        LET sine == Lg(Sin(Radians(call.case.angle * 1000000)), 6)
        IN /\ LgSinAngle(call.case) = sine
           /\ SameNum(trajectory.descent_rate, Pos(trajectory.v[1].lg + sine))
           /\ ret.transient_crater_diameter_m =
                 Round2(Lg(1161, 3) + ScaleLg(Lg(981, 2), -220)
                        + ScaleLg(LgInt(call.case.density) - LgInt(2000) + sine, 333)
                        + ScaleLg(ret.diameter_ground_m.lg, 780)
                        + ScaleLg(ret.speed_at_ground_ms.lg, 440))

====
